---- MODULE Spec2Model ----
(***************************************************************************)
(* A model of orbitize/plot.py: plot_corner and plot_orbits.               *)
(*                                                                         *)
(* Python strings are modelled as sequences of one-character strings, so   *)
(* that startswith, slicing and indexing are computed as Python computes   *)
(* them.  Python indices are kept 0-based as values; TLA+ sequences are    *)
(* 1-based, so the element with Python index i of a list l is l[i + 1].    *)
(* Real numbers are fixed-point integers (see Degrees and SolToJup).       *)
(***************************************************************************)
EXTENDS Integers, Sequences, FiniteSets, TLC

(***************************************************************************)
(* Bounds of the model.                                                    *)
(***************************************************************************)
MaxSamples == 2
MaxParamList == 2
MaxBodies == 2
MaxOrbits == 2
MaxRows == 3
num_epochs_to_plot == 3

(***************************************************************************)
(* Python string and list helpers.                                         *)
(***************************************************************************)
Min(a, b) == IF a < b THEN a ELSE b

\* s.startswith(prefix)
StartsWith(s, prefix) ==
    /\ Len(s) >= Len(prefix)
    /\ SubSeq(s, 1, Len(prefix)) = prefix

\* s[a:b] for 0 <= a, with b >= 0 counted from the start and b < 0 from the end
Slice(s, a, b) ==
    LET stop == IF b < 0 THEN Len(s) + b ELSE Min(b, Len(s))
    IN  SubSeq(s, a + 1, stop)

\* x in l, for a Python list l
InList(x, l) == \E k \in 1..Len(l) : l[k] = x

\* the elements of a list, as a set
Range(l) == {l[k] : k \in 1..Len(l)}

\* all lists without repetition of at most n elements of S
RECURSIVE ListsUpTo(_, _)
ListsUpTo(S, n) ==
    IF n = 0 THEN {<<>>}
    ELSE LET shorter == ListsUpTo(S, n - 1)
         IN  shorter \cup {Append(l, x) : l \in shorter, x \in S}

DistinctLists(S, n) ==
    {l \in ListsUpTo(S, n) : \A i, j \in 1..Len(l) : i # j => l[i] # l[j]}

(***************************************************************************)
(* Parameter names.                                                        *)
(***************************************************************************)
Digit(n) == CASE n = 0 -> "0" [] n = 1 -> "1" [] n = 2 -> "2" [] n = 3 -> "3"
              [] n = 4 -> "4" [] n = 5 -> "5" [] OTHER -> "9"

sma == <<"s", "m", "a">>
ecc == <<"e", "c", "c">>
inc == <<"i", "n", "c">>
aop == <<"a", "o", "p">>
pan == <<"p", "a", "n">>
tau == <<"t", "a", "u">>
plx == <<"p", "l", "x">>
per == <<"p", "e", "r">>
gam == <<"g", "a", "m">>
sig == <<"s", "i", "g">>
mtot == <<"m", "t", "o", "t">>
m0 == <<"m", "0">>
m == <<"m">>
pm_ra == <<"p", "m", "_", "r", "a">>
pm_dec == <<"p", "m", "_", "d", "e", "c">>
alpha0 == <<"a", "l", "p", "h", "a", "0">>
delta0 == <<"d", "e", "l", "t", "a", "0">>
gamma == <<"g", "a", "m", "m", "a">>
sigma == <<"s", "i", "g", "m", "a">>
K == <<"K">>
key_x == <<"x">>
key_y == <<"y">>
key_z == <<"z">>
xdot == <<"x", "d", "o", "t">>
ydot == <<"y", "d", "o", "t">>
zdot == <<"z", "d", "o", "t">>
EpochSquare == <<"E", "p", "o", "c", "h", " ", "[", "y", "e", "a", "r", "]">>
EpochRound == <<"E", "p", "o", "c", "h", " ", "(", "y", "e", "a", "r", ")">>
foo == <<"f", "o", "o">>

\* '{kind}{n}', e.g. 'sma1'
Named(kind, n) == Append(kind, Digit(n))

\* the orbital elements fitted for each secondary body, in label order
ElementKinds == <<sma, ecc, inc, aop, pan, tau>>

RECURSIVE BodyLabels(_)
BodyLabels(nb) ==
    IF nb = 0 THEN <<>>
    ELSE BodyLabels(nb - 1) \o [k \in 1..Len(ElementKinds) |-> Named(ElementKinds[k], nb)]

RECURSIVE MassLabels(_, _)
MassLabels(b, nb) ==
    IF b > nb THEN <<>> ELSE <<Named(m, b)>> \o MassLabels(b + 1, nb)

\* results.labels of a fit of nb secondary bodies: the elements of each body,
\* the parallax, and either the total mass or the masses of every body
SystemLabels(nb, fit_secondary_mass) ==
    BodyLabels(nb) \o <<plx>> \o
    (IF fit_secondary_mass THEN MassLabels(1, nb) \o <<m0>> ELSE <<mtot>>)

(***************************************************************************)
(* Numbers.  A posterior value is a fixed-point integer in units of 1/1000 *)
(* (radians, solar masses, ...).                                           *)
(***************************************************************************)
\* np.degrees(x) = x * 180 / pi, with pi = 3.142
Degrees(x) == (x * 180000) \div 3142

\* u.solMass.to(u.jupiterMass), about 1047.57
SolToJup == 1047

RECURSIVE SumSeq(_)
SumSeq(s) == IF s = <<>> THEN 0 ELSE Head(s) + SumSeq(Tail(s))

(***************************************************************************)
(* The results object: the state shared by both plotting functions.        *)
(***************************************************************************)
VARIABLES
    post,                   \* results.post: one row per posterior sample
    labels,                 \* results.labels
    param_idx,              \* results.param_idx: label -> column (0-based)
    num_secondary_bodies,   \* results.num_secondary_bodies
    sampler_name,           \* results.sampler_name
    data                    \* results.data: one row per measurement

\* everything of the results object but the posterior
resultsRest == <<labels, param_idx, num_secondary_bodies, sampler_name, data>>

resultsVars == <<post, resultsRest>>

\* the dictionary label -> position built with the labels of the fit
ParamIdxOf(ls) ==
    [p \in Range(ls) |-> (CHOOSE k \in 1..Len(ls) : ls[k] = p) - 1]

\* A posterior of n samples over the columns of ls: the columns of the labels
\* in fixed hold one value in every sample, the others differ between samples.
PosteriorOf(n, ls, fixed) ==
    [r \in 1..n |->
        [c \in 1..Len(ls) |-> IF ls[c] \in fixed THEN 10 * c ELSE 10 * c + r]]

\* the parameters a fit may hold fixed in the posteriors drawn here
FixableParams == {Named(sma, 1), Named(inc, 1), plx}

(***************************************************************************)
(* The state of one call: position, arguments, locals and outcome.         *)
(***************************************************************************)
VARIABLES
    pc,                     \* where the call stands; "idle" before the call
    outcome,                \* how the call ended: a raise or a return
    param_list,             \* plot_corner: param_list, once defaulted
    corner_kwargs,          \* plot_corner: the 'labels' entry of **corner_kwargs
    param_indices,          \* plot_corner locals
    angle_indices,
    secondary_mass_indices,
    samples,
    corner_call             \* the arguments corner.corner was called with

cornerVars == <<param_list, corner_kwargs, param_indices, angle_indices,
                secondary_mass_indices, samples, corner_call>>

Running == [kind |-> "running", type |-> "", msg |-> ""]
Raise(type, msg) == [kind |-> "raise", type |-> type, msg |-> msg]
Return(value) == [kind |-> "return", type |-> value, msg |-> ""]

NoLabels == [given |-> FALSE, labels |-> <<>>]
\* labels supplied by the caller (their text is of no concern to the module)
UserLabels == [given |-> TRUE, labels |-> << <<"user">> >>]
NoCall == [called |-> FALSE, samples |-> <<>>, labels |-> <<>>]

CornerIdle ==
    /\ param_list = <<>>
    /\ corner_kwargs = NoLabels
    /\ param_indices = <<>>
    /\ angle_indices = <<>>
    /\ secondary_mass_indices = <<>>
    /\ samples = <<>>
    /\ corner_call = NoCall

\* MJD of 2000-01-01, the default start_mjd
Mjd2000 == 51544

(***************************************************************************)
(* plot_orbits: arguments, locals and what it has drawn.                   *)
(***************************************************************************)
VARIABLES
    object_to_plot,
    start_mjd,
    sep_pa_end_year,
    cbar_param,
    num_orbits_arg,         \* num_orbits_to_plot as the caller passed it
    num_orbits_to_plot,     \* the local, once limited to the posterior's size
    fig,                    \* the fig argument, then the figure drawn on
    index,                  \* <<>> while unbound, else <<column>>
    choose,                 \* the sample indices drawn by np.random.randint
    standard_post,          \* one entry per chosen sample
    figures,                \* how many figures plt.figure has created
    tracks,                 \* the LineCollections added to the orbit panel
    rv_time_series,
    rv_time_series2,
    astr_epochs,            \* epochs of the astrometric rows of the object
    sep_data,               \* separations (and position angles) to plot
    sep_points,             \* what the separation panel's scatter was given
    rv_curves               \* the curves drawn in the RV panels

\* the arguments and locals of the separation, position-angle and RV panels
panelVars == <<rv_time_series, rv_time_series2, astr_epochs, sep_data,
               sep_points, rv_curves>>

orbitsVars == <<object_to_plot, start_mjd, sep_pa_end_year, cbar_param,
                num_orbits_arg, num_orbits_to_plot, fig, index, choose,
                standard_post, figures, tracks, panelVars>>

NoPoints == [x |-> <<>>, y |-> <<>>]

vars == <<resultsVars, pc, outcome, cornerVars, orbitsVars>>

OrbitsIdle ==
    /\ object_to_plot = 1
    /\ start_mjd = Mjd2000
    /\ sep_pa_end_year = 2025000
    /\ cbar_param = EpochSquare
    /\ num_orbits_arg = 0
    /\ num_orbits_to_plot = 0
    /\ fig = "None"
    /\ index = <<>>
    /\ choose = <<>>
    /\ standard_post = <<>>
    /\ figures = 0
    /\ tracks = <<>>
    /\ rv_time_series = FALSE
    /\ rv_time_series2 = FALSE
    /\ astr_epochs = <<>>
    /\ sep_data = <<>>
    /\ sep_points = NoPoints
    /\ rv_curves = <<>>

(***************************************************************************)
(* plot_corner                                                             *)
(***************************************************************************)
\* results.post[:, index_num]
Column(index_num) == [r \in 1..Len(post) |-> post[r][index_num + 1]]

\* n^2 times the variance of a column: n * sum(x^2) - sum(x)^2
VarianceNumerator(col) ==
    Len(col) * SumSeq([k \in 1..Len(col) |-> col[k] * col[k]]) - SumSeq(col) * SumSeq(col)

IsNonFixedAlways(index_num) == VarianceNumerator(Column(index_num)) >= 0

\* np.std(results.post[:, index_num]) > 0
IsNonFixed(index_num) == VarianceNumerator(Column(index_num)) > 0

IsAngle(label_key) ==
    StartsWith(label_key, aop) \/ StartsWith(label_key, pan) \/ StartsWith(label_key, inc)

IsSecondaryMass(label_key) ==
    StartsWith(label_key, m) /\ label_key # m0 /\ label_key # mtot

NoSelection ==
    [param_indices |-> <<>>, angle_indices |-> <<>>,
     secondary_mass_indices |-> <<>>, error |-> ""]

\* the body of the selection loop for the entry with Python index i
SelectStep(acc, i, param) ==
    LET index_num == param_idx[param]
    IN  IF IsNonFixed(index_num)
        THEN [acc EXCEPT
                !.param_indices = Append(@, index_num),
                !.angle_indices = IF IsAngle(param) THEN Append(@, i) ELSE @,
                !.secondary_mass_indices =
                    IF IsSecondaryMass(param) THEN Append(@, i) ELSE @]
        ELSE acc

\* for i, param in enumerate(param_list), from Python index i on
RECURSIVE SelectLoop(_, _, _)
SelectLoop(pl, i, acc) ==
    IF i >= Len(pl) THEN acc
    ELSE IF pl[i + 1] \notin DOMAIN param_idx THEN [acc EXCEPT !.error = "KeyError"]
    ELSE SelectLoop(pl, i + 1, SelectStep(acc, i, pl[i + 1]))

\* the parameter lists a caller passes: known labels and one unknown name
CallerParams == Range(labels) \cup {Named(per, 1)}

CallPlotCorner ==
    /\ pc = "idle"
    /\ \E isNone \in BOOLEAN, pl \in DistinctLists(CallerParams, MaxParamList),
          kw \in {NoLabels, UserLabels} :
          /\ param_list' = IF isNone THEN labels ELSE pl
          /\ corner_kwargs' = kw
    /\ pc' = "corner_entry"
    /\ UNCHANGED <<outcome, param_indices, angle_indices, secondary_mass_indices,
                   samples, corner_call>>
    /\ UNCHANGED <<resultsVars, orbitsVars>>

CornerSelect ==
    /\ pc = "corner_entry"
    /\ LET sel == SelectLoop(param_list, 0, NoSelection)
       IN  IF sel.error # ""
           THEN /\ pc' = "raised"
                /\ outcome' = Raise(sel.error, "param_idx")
                /\ UNCHANGED <<param_indices, angle_indices, secondary_mass_indices>>
           ELSE /\ pc' = "corner_selected"
                /\ param_indices' = sel.param_indices
                /\ angle_indices' = sel.angle_indices
                /\ secondary_mass_indices' = sel.secondary_mass_indices
                /\ UNCHANGED outcome
    /\ UNCHANGED <<param_list, corner_kwargs, samples, corner_call>>
    /\ UNCHANGED <<resultsVars, orbitsVars>>

\* np.copy(results.post[:, param_indices])
CopyColumns(idxs) ==
    [r \in 1..Len(post) |-> [k \in 1..Len(idxs) |-> post[r][idxs[k] + 1]]]

CornerCopy ==
    /\ pc = "corner_selected"
    /\ samples' = CopyColumns(param_indices)
    /\ pc' = "corner_copied"
    /\ UNCHANGED <<outcome, param_list, corner_kwargs, param_indices, angle_indices,
                   secondary_mass_indices, corner_call>>
    /\ UNCHANGED <<resultsVars, orbitsVars>>

\* an index list selects a column the array does not have
OutOfBounds(idxs, ncols) == \E k \in 1..Len(idxs) : idxs[k] >= ncols \/ idxs[k] < -ncols

\* samples[:, idxs] = np.degrees(samples[:, idxs])
DegreesAt(s, idxs) ==
    [r \in 1..Len(s) |->
        [k \in 1..Len(s[r]) |-> IF InList(k - 1, idxs) THEN Degrees(s[r][k]) ELSE s[r][k]]]

\* samples[:, idxs] *= u.solMass.to(u.jupiterMass)
ScaleAt(s, idxs) ==
    [r \in 1..Len(s) |->
        [k \in 1..Len(s[r]) |-> IF InList(k - 1, idxs) THEN s[r][k] * SolToJup ELSE s[r][k]]]

\* samples = np.copy(results.post[:, param_indices]): a new array
SamplesOwner == "copy"

\* results.post once the array s has been stored into samples: post itself is
\* written (in its columns idxs) only if samples is a view of it
AfterStore(owner, p, idxs, s) ==
    IF owner = "post"
    THEN [r \in 1..Len(p) |->
            [c \in 1..Len(p[r]) |->
                IF InList(c - 1, idxs)
                THEN s[r][CHOOSE k \in 1..Len(idxs) : idxs[k] = c - 1]
                ELSE p[r][c]]]
    ELSE p

CornerConvert ==
    /\ pc = "corner_copied"
    /\ LET ncols == Len(param_indices)
       IN  IF OutOfBounds(angle_indices, ncols) \/ OutOfBounds(secondary_mass_indices, ncols)
           THEN /\ pc' = "raised"
                /\ outcome' = Raise("IndexError", "samples")
                /\ samples' = IF OutOfBounds(angle_indices, ncols)
                              THEN samples
                              ELSE DegreesAt(samples, angle_indices)
           ELSE /\ pc' = "corner_converted"
                /\ samples' = ScaleAt(DegreesAt(samples, angle_indices),
                                      secondary_mass_indices)
                /\ UNCHANGED outcome
    /\ UNCHANGED <<param_list, corner_kwargs, param_indices, angle_indices,
                   secondary_mass_indices, corner_call>>
    /\ post' = AfterStore(SamplesOwner, post, param_indices, samples')
    /\ UNCHANGED <<resultsRest, orbitsVars>>

(***************************************************************************)
(* plot_corner: the default axis labels.  A label template is a sequence   *)
(* of pieces of text in which "{0}" stands for the format field.           *)
(***************************************************************************)
DefaultLabelKeys ==
    {sma, ecc, inc, aop, pan, tau, plx, gam, sig, mtot, m0, m, pm_ra, pm_dec,
     alpha0, delta0, per, K, key_x, key_y, key_z, xdot, ydot, zdot}

default_labels(key) ==
    CASE key = sma -> <<"$a_", "{0}", "$ [au]">>
      [] key = ecc -> <<"$ecc_", "{0}", "$">>
      [] key = inc -> <<"$inc_", "{0}", "$ [$^\\circ$]">>
      [] key = aop -> <<"$\\omega_", "{0}", "$ [$^\\circ$]">>
      [] key = pan -> <<"$\\Omega_", "{0}", "$ [$^\\circ$]">>
      [] key = tau -> <<"$\\tau_", "{0}", "$">>
      [] key = plx -> <<"$\\pi$ [mas]">>
      [] key = gam -> <<"$\\gamma$ [km/s]">>
      [] key = sig -> <<"$\\sigma$ [km/s]">>
      [] key = mtot -> <<"$M_T$ [M$_{\\odot}$]">>
      [] key = m0 -> <<"$M_0$ [M$_{\\odot}$]">>
      [] key = m -> <<"$M_", "{0}", "$ [M$_{\\rm Jup}$]">>
      [] key = pm_ra -> <<"$\\mu_{\\alpha}$ [mas/yr]">>
      [] key = pm_dec -> <<"$\\mu_{\\delta}$ [mas/yr]">>
      [] key = alpha0 -> <<"$\\alpha^{*}_{0}$ [mas]">>
      [] key = delta0 -> <<"$\\delta_0$ [mas]">>
      [] key = per -> <<"$P_", "{0}", "$ [yr]">>
      [] key = K -> <<"$K_", "{0}", "$ [km/s]">>
      [] key = key_x -> <<"$X_", "{0}", "$ [AU]">>
      [] key = key_y -> <<"$Y_", "{0}", "$ [AU]">>
      [] key = key_z -> <<"$Z_", "{0}", "$ [AU]">>
      [] key = xdot -> <<"$xdot_", "{0}", "$ [km/s]">>
      [] key = ydot -> <<"$ydot_", "{0}", "$ [km/s]">>
      [] key = zdot -> <<"$zdot_", "{0}", "$ [km/s]">>

\* template.format(arg)
Format(template, arg) ==
    [k \in 1..Len(template) |-> IF template[k] = "{0}" THEN arg ELSE template[k]]

\* the key and the body number the label loop derives from one parameter name
LabelKeyOf(label_key) ==
    IF IsSecondaryMass(label_key)
    THEN [body_num |-> label_key[2], label_key |-> m]
    ELSE IF label_key = m0 \/ label_key = mtot \/ StartsWith(label_key, plx)
    THEN [body_num |-> "", label_key |-> label_key]
    ELSE IF label_key \in {pm_ra, pm_dec, alpha0, delta0}
    THEN [body_num |-> "", label_key |-> label_key]
    ELSE IF StartsWith(label_key, gamma) \/ StartsWith(label_key, sigma)
    THEN [body_num |-> "", label_key |-> Slice(label_key, 0, 3)]
    ELSE [body_num |-> label_key[Len(label_key)], label_key |-> Slice(label_key, 0, -1)]

\* default_labels[label_key].format(body_num) for one parameter name
LabelOf(param) ==
    LET d == LabelKeyOf(param)
    IN  Format(default_labels(d.label_key), d.body_num)

HasLabel(param) == LabelKeyOf(param).label_key \in DefaultLabelKeys

\* for i in np.arange(len(param_indices)): label_key = param_list[i] ...
reduced_labels_list(n) == [k \in 1..n |-> LabelOf(param_list[k])]

CornerLabels ==
    /\ pc = "corner_converted"
    /\ IF corner_kwargs.given
       THEN /\ pc' = "corner_labelled"
            /\ UNCHANGED <<corner_kwargs, outcome>>
       ELSE LET n == Len(param_indices)
            IN  IF \E k \in 1..n : ~HasLabel(param_list[k])
                THEN /\ pc' = "raised"
                     /\ outcome' = Raise("KeyError", "default_labels")
                     /\ UNCHANGED corner_kwargs
                ELSE /\ pc' = "corner_labelled"
                     /\ corner_kwargs' = [given |-> TRUE, labels |-> reduced_labels_list(n)]
                     /\ UNCHANGED outcome
    /\ UNCHANGED <<param_list, param_indices, angle_indices, secondary_mass_indices,
                   samples, corner_call>>
    /\ UNCHANGED <<resultsVars, orbitsVars>>

\* figure = corner.corner(samples, **corner_kwargs); return figure
CornerCall ==
    /\ pc = "corner_labelled"
    /\ corner_call' = [called |-> TRUE, samples |-> samples, labels |-> corner_kwargs.labels]
    /\ pc' = "corner_done"
    /\ outcome' = Return("Figure")
    /\ UNCHANGED <<param_list, corner_kwargs, param_indices, angle_indices,
                   secondary_mass_indices, samples>>
    /\ UNCHANGED <<resultsVars, orbitsVars>>

(***************************************************************************)
(* plot_orbits: dates.  An MJD is a whole number of days; a decimal year   *)
(* is a fixed-point integer in units of 1/1000 year.                       *)
(***************************************************************************)
IsLeap(year) == year % 4 = 0 /\ (year % 100 # 0 \/ year % 400 = 0)

DaysIn(year) == IF IsLeap(year) THEN 366 ELSE 365

\* the calendar year holding mjd and the days elapsed since its 1 January,
\* searched from a year whose 1 January is the MJD first
RECURSIVE YearAndDay(_, _, _)
YearAndDay(year, first, mjd) ==
    IF mjd < first THEN YearAndDay(year - 1, first - DaysIn(year - 1), mjd)
    ELSE IF mjd >= first + DaysIn(year) THEN YearAndDay(year + 1, first + DaysIn(year), mjd)
    ELSE [year |-> year, day |-> mjd - first]

\* Time(mjd, format='mjd').decimalyear: the year plus the elapsed fraction of
\* it, rounded down to 1/1000 year
DecimalYear(mjd) ==
    LET d == YearAndDay(2000, Mjd2000, mjd)
    IN  d.year * 1000 + (d.day * 1000) \div DaysIn(d.year)

\* the MJD of 1 January of a year
RECURSIVE FirstOfYear(_)
FirstOfYear(year) ==
    IF year = 2000 THEN Mjd2000
    ELSE IF year > 2000 THEN FirstOfYear(year - 1) + DaysIn(year - 1)
    ELSE FirstOfYear(year + 1) - DaysIn(year)

\* Time(year, format='decimalyear').mjd, rounded down to a whole day
MjdOfDecimalYear(dyear) ==
    LET year == dyear \div 1000
    IN  FirstOfYear(year) + ((dyear % 1000) * DaysIn(year)) \div 1000

\* np.linspace(a, b, n): n >= 2 evenly spaced values from a to b, in whole days
Linspace(a, b, n) == [j \in 1..n |-> a + ((b - a) * (j - 1)) \div (n - 1)]

\* Time(epochs, format='mjd').decimalyear of an array of epochs
DecimalYears(epochs) == [j \in 1..Len(epochs) |-> DecimalYear(epochs[j])]

(***************************************************************************)
(* results.data: the measurements.  Object 0 is the primary, whose rows    *)
(* are radial velocities; a companion has 'radec', 'seppa' and 'rv' rows.  *)
(* A row of type 'rv' has no second quantity (quant2 is NaN).  The k-th    *)
(* row was taken 100 days after the (k-1)-th, and measured 10 * k.         *)
(***************************************************************************)
RowKinds ==
    { [object |-> 0, quant_type |-> "rv"],
      [object |-> 1, quant_type |-> "radec"],
      [object |-> 1, quant_type |-> "seppa"],
      [object |-> 1, quant_type |-> "rv"] }

RowEpoch(k) == Mjd2000 + 3 * 365 + 100 * (k - 1)

DataRow(k, kind) ==
    [object |-> kind.object, quant_type |-> kind.quant_type,
     epoch |-> RowEpoch(k), quant1 |-> 10 * k,
     has_quant2 |-> kind.quant_type # "rv"]

\* the tables of up to n rows
DataSets(n) ==
    { [k \in 1..Len(kinds) |-> DataRow(k, kinds[k])] : kinds \in ListsUpTo(RowKinds, n) }

\* results.data[results.data['object'] == obj]
ObjectRows(d, obj) == SelectSeq(d, LAMBDA r : r.object = obj)

\* d[d['quant_type'] == quant_type]
TypeRows(d, quant_type) == SelectSeq(d, LAMBDA r : r.quant_type = quant_type)

\* the only RV instrument of the data, and the label of its offset
Instrument == <<"i", "n", "s", "t">>
GammaOf(inst) == gamma \o <<"_">> \o inst
SigmaOf(inst) == sigma \o <<"_">> \o inst

\* results.labels of a fit of nb secondary bodies with radial velocities: the
\* offset and jitter of the instrument come before the masses of every body
RvSystemLabels(nb) ==
    BodyLabels(nb) \o <<plx, GammaOf(Instrument), SigmaOf(Instrument)>> \o
    MassLabels(1, nb) \o <<m0>>

(***************************************************************************)
(* plot_orbits: validation of the arguments.                               *)
(***************************************************************************)
\* the dates and end years a caller passes: 2000-01-01, 2025-01-01 and
\* 2025-07-02; the years 2025.0 and 2025.5
StartMjds == {Mjd2000, 60676, 60858}
EndYears == {2025000, 2025500}

\* the colour-bar parameters a caller passes
CbarParams ==
    {EpochSquare, EpochRound, plx, foo, Named(m, 1)}
    \cup {Named(ElementKinds[k], n) : k \in 1..Len(ElementKinds), n \in 1..MaxBodies}

CallPlotOrbits ==
    /\ pc = "idle"
    /\ object_to_plot' \in 0..(MaxBodies + 1)
    /\ start_mjd' \in StartMjds
    /\ sep_pa_end_year' \in EndYears
    /\ cbar_param' \in CbarParams
    /\ num_orbits_arg' \in 0..MaxOrbits
    /\ num_orbits_to_plot' = num_orbits_arg'
    /\ fig' \in {"None", "given"}
    /\ pc' = "orbits_entry"
    /\ UNCHANGED <<outcome, index, choose, standard_post, figures, tracks, panelVars>>
    /\ UNCHANGED <<resultsVars, cornerVars>>

\* plot_orbits(results, rv_time_series=..., rv_time_series2=..., fig=...), the
\* other arguments at their defaults but for num_orbits_to_plot = 1
CallPlotOrbitsPanels ==
    /\ pc = "idle"
    /\ object_to_plot' = 1
    /\ start_mjd' = Mjd2000
    /\ sep_pa_end_year' = 2025000
    /\ cbar_param' = EpochSquare
    /\ num_orbits_arg' = 1
    /\ num_orbits_to_plot' = num_orbits_arg'
    /\ fig' \in {"None", "given"}
    /\ rv_time_series' \in BOOLEAN
    /\ rv_time_series2' \in BOOLEAN
    /\ pc' = "orbits_entry"
    /\ UNCHANGED <<outcome, index, choose, standard_post, figures, tracks,
                   astr_epochs, sep_data, sep_points, rv_curves>>
    /\ UNCHANGED <<resultsVars, cornerVars>>

StartTooLateStrict(mjd, end_year) == DecimalYear(mjd) > end_year

\* Time(start_mjd, format='mjd').decimalyear >= sep_pa_end_year
StartTooLate(mjd, end_year) == DecimalYear(mjd) >= end_year

OrbitsCheckStart ==
    /\ pc = "orbits_entry"
    /\ IF StartTooLate(start_mjd, sep_pa_end_year)
       THEN /\ pc' = "raised"
            /\ outcome' = Raise("ValueError", "start_mjd")
       ELSE /\ pc' = "orbits_start_ok"
            /\ UNCHANGED outcome
    /\ UNCHANGED <<resultsVars, cornerVars, orbitsVars>>

ObjectOutOfRangeOffByOne(obj) == obj > num_secondary_bodies + 1

\* object_to_plot > results.num_secondary_bodies
ObjectOutOfRange(obj) == obj > num_secondary_bodies

OrbitsCheckObject ==
    /\ pc = "orbits_start_ok"
    /\ IF ObjectOutOfRange(object_to_plot)
       THEN /\ pc' = "raised"
            /\ outcome' = Raise("ValueError", "out of range")
       ELSE IF object_to_plot = 0
       THEN /\ pc' = "raised"
            /\ outcome' = Raise("ValueError", "primary")
       ELSE /\ pc' = "orbits_object_ok"
            /\ UNCHANGED outcome
    /\ UNCHANGED <<resultsVars, cornerVars, orbitsVars>>

\* the list literal: 'aop' 'pan' without a comma is the one string 'aoppan'
possible_cbar_params == <<sma, ecc, inc, aop \o pan, tau, plx>>

IsEpochParam(c) == c \in {EpochSquare, EpochRound}

HasPossiblePrefixOrFoo(c) ==
    InList(Slice(c, 0, 3), possible_cbar_params) \/ Slice(c, 0, 3) = foo

\* cbar_param[0:3] in possible_cbar_params
HasPossiblePrefix(c) == InList(Slice(c, 0, 3), possible_cbar_params)

OrbitsCheckCbar ==
    /\ pc = "orbits_object_ok"
    /\ IF IsEpochParam(cbar_param)
       THEN /\ pc' = "orbits_validated"
            /\ UNCHANGED <<index, outcome>>
       ELSE IF HasPossiblePrefix(cbar_param)
       THEN IF cbar_param \in DOMAIN param_idx
            THEN /\ pc' = "orbits_validated"
                 /\ index' = <<param_idx[cbar_param]>>
                 /\ UNCHANGED outcome
            ELSE /\ pc' = "raised"
                 /\ outcome' = Raise("KeyError", "param_idx")
                 /\ UNCHANGED index
       ELSE /\ pc' = "raised"
            /\ outcome' = Raise("Exception", "Invalid input")
            /\ UNCHANGED index
    /\ UNCHANGED <<object_to_plot, start_mjd, sep_pa_end_year, cbar_param,
                   num_orbits_arg, num_orbits_to_plot, fig, choose,
                   standard_post, figures, tracks, panelVars>>
    /\ UNCHANGED <<resultsVars, cornerVars>>

(***************************************************************************)
(* plot_orbits: selecting the samples and drawing the orbit tracks.        *)
(***************************************************************************)
NotLimited(n, num_orbits) == n

\* if num_orbits_to_plot > num_orbits: num_orbits_to_plot = num_orbits
LimitOrbits(n, num_orbits) == IF n > num_orbits THEN num_orbits ELSE n

\* the outcomes of np.random.randint(0, high=num_orbits, size=n)
RandInt(high, n) == [1..n -> 0..(high - 1)]

OrbitsChoose ==
    /\ pc = "orbits_validated"
    /\ LET num_orbits == Len(post)
       IN  /\ num_orbits_to_plot' = LimitOrbits(num_orbits_to_plot, num_orbits)
           /\ choose' \in RandInt(num_orbits, num_orbits_to_plot')
    /\ pc' = "orbits_chosen"
    /\ UNCHANGED <<object_to_plot, start_mjd, sep_pa_end_year, cbar_param,
                   num_orbits_arg, fig, index, standard_post, figures, tracks,
                   panelVars>>
    /\ UNCHANGED <<resultsVars, cornerVars, outcome>>

\* results.basis.to_standard_basis(param_arr): a basis other than the standard
\* one rewrites elements of the array it is given, in place (here the first)
ToStandardBasis(row) == [row EXCEPT ![1] = 2 * @]

ParamSetOwnerPost == "post"

\* param_set = np.copy(results.post[orb_ind]): a new array, not a view of post
ParamSetOwner == "copy"

\* results.post once to_standard_basis has rewritten, in place, the arrays made
\* from the samples idxs: post itself is written only if they are views of it
AfterToStandardBasis(owner, p, idxs) ==
    IF owner = "post"
    THEN [r \in 1..Len(p) |-> IF InList(r - 1, idxs) THEN ToStandardBasis(p[r]) ELSE p[r]]
    ELSE p

\* The row appended for the i-th chosen sample: the sample it was read from,
\* and whether it went through results.basis.to_standard_basis (MCMC only).
StandardRow(orb_ind) == [orb_ind |-> orb_ind, converted |-> sampler_name = "MCMC"]

\* standard_post = np.array(standard_post), then standard_post[:, column]: an
\* empty list makes a one-dimensional array, which has no second axis
OrbitsStandardPost ==
    /\ pc = "orbits_chosen"
    /\ standard_post' = [i \in 1..num_orbits_to_plot |-> StandardRow(choose[i])]
    /\ IF num_orbits_to_plot = 0
       THEN /\ pc' = "raised"
            /\ outcome' = Raise("IndexError", "standard_post")
       ELSE /\ pc' = "orbits_sampled"
            /\ UNCHANGED outcome
    /\ UNCHANGED <<object_to_plot, start_mjd, sep_pa_end_year, cbar_param,
                   num_orbits_arg, num_orbits_to_plot, fig, index, choose,
                   figures, tracks, panelVars>>
    /\ post' = AfterToStandardBasis(ParamSetOwner, post,
                                    IF sampler_name = "MCMC" THEN choose ELSE <<>>)
    /\ UNCHANGED <<resultsRest, cornerVars>>

\* m0 is assigned only when 'mtot' is not a label and 'm0' is
M0Bound == ~InList(mtot, labels) /\ InList(m0, labels)

\* if rv_time_series: the instrument of the first row of the primary, and the
\* column of its gamma; then rv_data, gamma, and the masses
OrbitsRvSetup ==
    /\ pc = "orbits_sampled"
    /\ IF rv_time_series /\ ObjectRows(data, 0) = <<>>
       THEN /\ pc' = "raised"
            /\ outcome' = Raise("IndexError", "instrument")
       ELSE IF rv_time_series /\ GammaOf(Instrument) \notin DOMAIN param_idx
       THEN /\ pc' = "raised"
            /\ outcome' = Raise("KeyError", "gamma")
       ELSE /\ pc' = "orbits_rv_ready"
            /\ UNCHANGED outcome
    /\ UNCHANGED <<resultsVars, cornerVars, orbitsVars>>

\* the k-th figure plt.figure creates during the call
NewFigure(k) == IF k = 1 THEN "created1" ELSE "created2"

\* if fig is None: fig = plt.figure(...), and again in each of the four layout
\* branches; else: plt.set_current_figure(fig), which pyplot does not provide
OrbitsFigure ==
    /\ pc = "orbits_rv_ready"
    /\ IF fig = "None"
       THEN /\ figures' = figures + 2
            /\ fig' = NewFigure(figures + 2)
            /\ pc' = "orbits_figure"
            /\ UNCHANGED outcome
       ELSE /\ pc' = "raised"
            /\ outcome' = Raise("AttributeError", "set_current_figure")
            /\ UNCHANGED <<fig, figures>>
    /\ UNCHANGED <<object_to_plot, start_mjd, sep_pa_end_year, cbar_param,
                   num_orbits_arg, num_orbits_to_plot, index, choose,
                   standard_post, tracks, panelVars>>
    /\ UNCHANGED <<resultsVars, cornerVars>>

\* radec2seppa(quant1, quant2) of a row, and the quantity of a seppa row
Astrometry(row, from_radec) == [quant1 |-> row.quant1, from_radec |-> from_radec]

SeppaRows(d) == [k \in 1..Len(d) |-> Astrometry(d[k], FALSE)]
RadecRows(d) == [k \in 1..Len(d) |-> Astrometry(d[k], TRUE)]

\* astr_epochs: the epochs of the rows with both quantities, in the order of
\* the data
AstrEpochs(d) ==
    LET astr == SelectSeq(d, LAMBDA r : r.has_quant2)
    IN  [k \in 1..Len(astr) |-> astr[k].epoch]

\* sep_data: the 'seppa' rows, then np.append of the converted 'radec' rows
SepData(d) == SeppaRows(TypeRows(d, "seppa")) \o RadecRows(TypeRows(d, "radec"))

\* data = results.data[results.data['object'] == object_to_plot], astr_epochs,
\* sep_data and pa_data (built alike)
OrbitsAstrometry ==
    /\ pc = "orbits_figure"
    /\ astr_epochs' = AstrEpochs(ObjectRows(data, object_to_plot))
    /\ sep_data' = SepData(ObjectRows(data, object_to_plot))
    /\ pc' = "orbits_astrometry"
    /\ UNCHANGED <<object_to_plot, start_mjd, sep_pa_end_year, cbar_param,
                   num_orbits_arg, num_orbits_to_plot, fig, index, choose,
                   standard_post, figures, tracks, rv_time_series,
                   rv_time_series2, sep_points, rv_curves>>
    /\ UNCHANGED <<resultsVars, cornerVars, outcome>>

\* for i in np.arange(num_orbits_to_plot): ax.add_collection(lc), the track of
\* the i-th row of standard_post
OrbitsPlotTracks ==
    /\ pc = "orbits_astrometry"
    /\ tracks' = [i \in 1..num_orbits_to_plot |-> standard_post[i].orb_ind]
    /\ pc' = "orbits_plotted"
    /\ UNCHANGED <<object_to_plot, start_mjd, sep_pa_end_year, cbar_param,
                   num_orbits_arg, num_orbits_to_plot, fig, index, choose,
                   standard_post, figures, panelVars>>
    /\ UNCHANGED <<resultsVars, cornerVars, outcome>>

RECURSIVE Repeat(_, _)
Repeat(s, n) == IF n = 0 THEN <<>> ELSE s \o Repeat(s, n - 1)

\* plt.plot(Time(epochs_rv).decimalyear, vz...): the curve drawn in an RV
\* panel, vz being the velocities calc_orbit returned for vz_epochs
RvCurve(panel, epochs_rv, vz_epochs) ==
    [panel |-> panel, x |-> DecimalYears(epochs_rv), vz_epochs |-> vz_epochs]

\* np.linspace(rv_data['epoch'][0] - 3*365, epochs_seppa[0, -1], n)
EpochsRv(rv_data, epochs_seppa) ==
    Linspace(rv_data[1].epoch - 3 * 365, epochs_seppa[Len(epochs_seppa)],
             num_epochs_to_plot)

\* the RV curves the loop draws for one orbit
RvCurvesOf(epochs_seppa, rv_data, rv_data2) ==
    (IF rv_time_series
     THEN <<RvCurve("ax3", EpochsRv(rv_data, epochs_seppa), epochs_seppa)>>
     ELSE <<>>) \o
    (IF rv_time_series2
     THEN IF rv_time_series
          THEN <<RvCurve("ax4", EpochsRv(rv_data, epochs_seppa), epochs_seppa)>>
          ELSE <<RvCurve("ax3", EpochsRv(rv_data2, epochs_seppa), epochs_seppa)>>
     ELSE <<>>)

\* for i in np.arange(num_orbits_to_plot): the separations, position angles
\* and, if asked for, the radial velocities of orbit i over epochs_seppa[i]
OrbitsSepPaRv ==
    /\ pc = "orbits_plotted"
    /\ LET epochs_seppa == Linspace(start_mjd, MjdOfDecimalYear(sep_pa_end_year),
                                    num_epochs_to_plot)
           rv_data == TypeRows(ObjectRows(data, 0), "rv")
           rv_data2 == TypeRows(ObjectRows(data, 1), "rv")
       IN  IF (rv_time_series \/ rv_time_series2) /\ ~M0Bound
           THEN /\ pc' = "raised"
                /\ outcome' = Raise("NameError", "m0")
                /\ UNCHANGED rv_curves
           ELSE IF \/ rv_time_series /\ rv_data = <<>>
                   \/ rv_time_series2 /\ ~rv_time_series /\ rv_data2 = <<>>
           THEN /\ pc' = "raised"
                /\ outcome' = Raise("IndexError", "epoch")
                /\ UNCHANGED rv_curves
           ELSE /\ pc' = "orbits_curves"
                /\ rv_curves' = Repeat(RvCurvesOf(epochs_seppa, rv_data, rv_data2),
                                       num_orbits_to_plot)
                /\ UNCHANGED outcome
    /\ UNCHANGED <<object_to_plot, start_mjd, sep_pa_end_year, cbar_param,
                   num_orbits_arg, num_orbits_to_plot, fig, index, choose,
                   standard_post, figures, tracks, rv_time_series,
                   rv_time_series2, astr_epochs, sep_data, sep_points>>
    /\ UNCHANGED <<resultsVars, cornerVars>>

\* plt.scatter(Time(astr_epochs, format='mjd').decimalyear, sep_data, ...) and
\* the error bars, then the same for pa_data: x and y of unequal length raise
OrbitsScatter ==
    /\ pc = "orbits_curves"
    /\ IF Len(astr_epochs) # Len(sep_data)
       THEN /\ pc' = "raised"
            /\ outcome' = Raise("ValueError", "scatter")
            /\ UNCHANGED sep_points
       ELSE /\ pc' = "orbits_scattered"
            /\ sep_points' = [x |-> DecimalYears(astr_epochs), y |-> sep_data]
            /\ UNCHANGED outcome
    /\ UNCHANGED <<object_to_plot, start_mjd, sep_pa_end_year, cbar_param,
                   num_orbits_arg, num_orbits_to_plot, fig, index, choose,
                   standard_post, figures, tracks, rv_time_series,
                   rv_time_series2, astr_epochs, sep_data, rv_curves>>
    /\ UNCHANGED <<resultsVars, cornerVars>>

\* best_post = to_standard_basis(results.post[best_like].copy()): a new array
BestPostOwner == "copy"

\* the RV data points and the curve of the most likely sample if an RV panel
\* is drawn, the colour bar, then return fig
OrbitsReturn ==
    /\ pc = "orbits_scattered"
    /\ outcome' = Return(fig)
    /\ pc' = "orbits_done"
    /\ \E best_like \in 0..(Len(post) - 1) :
        post' = AfterToStandardBasis(BestPostOwner, post,
                    IF rv_time_series \/ rv_time_series2 THEN <<best_like>> ELSE <<>>)
    /\ UNCHANGED <<resultsRest, cornerVars, orbitsVars>>

(***************************************************************************)
(* Specifications: a results object, then one call on it.                  *)
(***************************************************************************)
InitCall ==
    /\ pc = "idle"
    /\ outcome = Running
    /\ CornerIdle
    /\ OrbitsIdle

InitResults(bodies, fixables) ==
    \E n \in 1..MaxSamples, nb \in bodies, fit_secondary_mass \in BOOLEAN,
       fixed \in SUBSET fixables :
        /\ labels = SystemLabels(nb, fit_secondary_mass)
        /\ param_idx = ParamIdxOf(labels)
        /\ post = PosteriorOf(n, labels, fixed)
        /\ num_secondary_bodies = nb
        /\ sampler_name \in {"MCMC", "OFTI"}

\* plot_corner on the fit of one companion, some of whose parameters are fixed
InitCorner == InitResults({1}, FixableParams) /\ data = <<>> /\ InitCall

NextCorner ==
    \/ CallPlotCorner
    \/ CornerSelect
    \/ CornerCopy
    \/ CornerConvert
    \/ CornerLabels
    \/ CornerCall

SpecCorner == InitCorner /\ [][NextCorner]_vars

\* plot_orbits on the fit of one or more companions
InitOrbits == InitResults(1..MaxBodies, {}) /\ data = <<>> /\ InitCall

NextOrbits ==
    \/ CallPlotOrbits
    \/ OrbitsCheckStart
    \/ OrbitsCheckObject
    \/ OrbitsCheckCbar
    \/ OrbitsChoose
    \/ OrbitsStandardPost
    \/ OrbitsRvSetup
    \/ OrbitsFigure
    \/ OrbitsAstrometry
    \/ OrbitsPlotTracks
    \/ OrbitsSepPaRv
    \/ OrbitsScatter
    \/ OrbitsReturn

SpecOrbits == InitOrbits /\ [][NextOrbits]_vars

\* plot_orbits with its panels, on the fit of one companion with measurements
InitPanels ==
    /\ labels \in {SystemLabels(1, TRUE), SystemLabels(1, FALSE), RvSystemLabels(1)}
    /\ param_idx = ParamIdxOf(labels)
    /\ post = PosteriorOf(MaxSamples, labels, {})
    /\ num_secondary_bodies = 1
    /\ sampler_name \in {"MCMC", "OFTI"}
    /\ data \in DataSets(MaxRows)
    /\ InitCall

NextPanels ==
    \/ CallPlotOrbitsPanels
    \/ OrbitsCheckStart
    \/ OrbitsCheckObject
    \/ OrbitsCheckCbar
    \/ OrbitsChoose
    \/ OrbitsStandardPost
    \/ OrbitsRvSetup
    \/ OrbitsFigure
    \/ OrbitsAstrometry
    \/ OrbitsPlotTracks
    \/ OrbitsSepPaRv
    \/ OrbitsScatter
    \/ OrbitsReturn

SpecPanels == InitPanels /\ [][NextPanels]_vars

\* either function on one results object: the fit of one companion with its
\* masses, with or without radial velocities, and at most one measurement
InitFrame ==
    /\ labels \in {SystemLabels(1, TRUE), RvSystemLabels(1)}
    /\ param_idx = ParamIdxOf(labels)
    /\ \E fixed \in SUBSET {Named(sma, 1)} : post = PosteriorOf(MaxSamples, labels, fixed)
    /\ num_secondary_bodies = 1
    /\ sampler_name \in {"MCMC", "OFTI"}
    /\ data \in DataSets(1)
    /\ InitCall

NextFrame == NextCorner \/ NextPanels

SpecFrame == InitFrame /\ [][NextFrame]_vars

(***************************************************************************)
(* Properties of plot_orbits (checked under SpecOrbits).                   *)
(***************************************************************************)
\* the start date is not before the end year, compared exactly as fractions
StartNotBeforeEnd ==
    LET d == YearAndDay(2000, Mjd2000, start_mjd)
    IN  (d.year * DaysIn(d.year) + d.day) * 1000 >= sep_pa_end_year * DaysIn(d.year)

NothingSelectedOrDrawn ==
    /\ choose = <<>>
    /\ standard_post = <<>>
    /\ figures = 0
    /\ tracks = <<>>

ObjectIsSecondary == object_to_plot \in 1..num_secondary_bodies

DocumentedCbar(c) ==
    \/ c \in {EpochSquare, plx}
    \/ \E k \in 1..Len(ElementKinds), n \in 1..num_secondary_bodies :
          c = Named(ElementKinds[k], n)

ValidInput ==
    /\ ~StartNotBeforeEnd
    /\ ObjectIsSecondary
    /\ DocumentedCbar(cbar_param)

\* C3: a finished call has returned the figure if its input was valid, and
\* has returned None otherwise.
C3_ReturnsFigureOrNone ==
    pc \in {"raised", "orbits_done"} =>
        IF ValidInput
        THEN outcome.kind = "return" /\ outcome.type \in {"given", "created1", "created2"}
        ELSE outcome = Return("None")

\* C4: once the colour-bar check has run, a documented option that is a key
\* of param_idx (or the epoch) was not refused, and the colour index is its
\* column in param_idx.
C4_DocumentedCbarAccepted ==
    (/\ pc \notin {"idle", "orbits_entry", "orbits_start_ok", "orbits_object_ok"}
     /\ outcome.msg \notin {"start_mjd", "out of range", "primary"}
     /\ DocumentedCbar(cbar_param)
     /\ (IsEpochParam(cbar_param) \/ cbar_param \in DOMAIN param_idx))
    => /\ outcome # Raise("Exception", "Invalid input")
       /\ IsEpochParam(cbar_param) \/ index = <<param_idx[cbar_param]>>

\* neither an epoch option nor a name whose first three characters are one of
\* sma, ecc, inc, aop, pan, tau, plx
NotACbarOption(c) ==
    /\ c \notin {EpochSquare, EpochRound}
    /\ Slice(c, 0, 3) \notin {sma, ecc, inc, aop, pan, tau, plx}

C10_OrbitCount ==
    /\ \A i \in 1..Len(choose) : choose[i] \in 0..(Len(post) - 1)
    /\ pc \in {"orbits_chosen", "orbits_sampled", "orbits_rv_ready", "orbits_figure",
               "orbits_astrometry", "orbits_plotted", "orbits_curves",
               "orbits_scattered", "orbits_done"}
          => Len(choose) = Min(num_orbits_arg, Len(post))
    /\ pc \in {"orbits_plotted", "orbits_curves", "orbits_scattered", "orbits_done"} =>
          /\ Len(tracks) = Min(num_orbits_arg, Len(post))
          /\ \A i \in 1..Len(tracks) : tracks[i] = choose[i]

\* a call asked for more orbits than there are samples has returned
C10_Witness ==
    /\ pc = "orbits_done"
    /\ num_orbits_arg > Len(post)
    /\ Len(tracks) = Len(post)
    /\ tracks = choose

(***************************************************************************)
(* Properties of plot_corner (checked under SpecCorner).                   *)
(***************************************************************************)
\* the posterior of param differs between two samples
Varies(param) ==
    \E r1, r2 \in 1..Len(post) :
        post[r1][param_idx[param] + 1] # post[r2][param_idx[param] + 1]

\* the non-fixed entries of param_list, in param_list order
NonFixedParams == SelectSeq(param_list, Varies)

\* the posterior value of param in sample r
PostOf(r, param) == post[r][param_idx[param] + 1]

\* what a posterior value may have become in the sample array
Conversions(v) == {v, Degrees(v), v * SolToJup, Degrees(v) * SolToJup}

\* C6: the array copied from the posterior holds exactly the columns of the
\* non-fixed entries of param_list, in order, and the array passed to
\* corner.corner has those same columns (each value possibly unit-converted).
C6_OnlyNonFixedColumns ==
    /\ pc = "corner_copied" =>
          samples = [r \in 1..Len(post) |->
                        [k \in 1..Len(NonFixedParams) |-> PostOf(r, NonFixedParams[k])]]
    /\ corner_call.called =>
          /\ Len(corner_call.samples) = Len(post)
          /\ \A r \in 1..Len(post) :
                /\ Len(corner_call.samples[r]) = Len(NonFixedParams)
                /\ \A k \in 1..Len(NonFixedParams) :
                      corner_call.samples[r][k] \in Conversions(PostOf(r, NonFixedParams[k]))

\* corner.corner was called for a list with a fixed and a non-fixed parameter
C6_Witness ==
    /\ corner_call.called
    /\ Len(NonFixedParams) > 0
    /\ Len(NonFixedParams) < Len(param_list)
    /\ Len(corner_call.samples[1]) = Len(NonFixedParams)

\* C7: when the caller supplies no labels, corner.corner gets one label per
\* plotted column, the k-th being the default label of the parameter whose
\* samples are in the k-th column.
C7_DefaultLabelsMatchColumns ==
    (corner_call.called /\ corner_call.labels # UserLabels.labels) =>
        corner_call.labels = [k \in 1..Len(NonFixedParams) |-> LabelOf(NonFixedParams[k])]

\* C8: in the array passed to corner.corner a column is converted to degrees
\* if and only if its parameter's name starts with aop, pan or inc.
C8_AnglesInDegrees ==
    corner_call.called =>
        \A r \in 1..Len(post), k \in 1..Len(NonFixedParams) :
            LET v == PostOf(r, NonFixedParams[k])
            IN  (corner_call.samples[r][k] \in {Degrees(v), Degrees(v) * SolToJup})
                    <=> IsAngle(NonFixedParams[k])

\* C9: in the array passed to corner.corner a column is multiplied by the
\* solar-to-Jupiter factor if and only if it holds the mass of a secondary
\* body; m0 and mtot stay in solar masses.
C9_CompanionMassesInJupiter ==
    corner_call.called =>
        \A r \in 1..Len(post), k \in 1..Len(NonFixedParams) :
            LET v == PostOf(r, NonFixedParams[k])
            IN  (corner_call.samples[r][k] \in {v * SolToJup, Degrees(v) * SolToJup})
                    <=> IsSecondaryMass(NonFixedParams[k])

(***************************************************************************)
(* Properties of the panels of plot_orbits (checked under SpecPanels).     *)
(***************************************************************************)
\* the call is over: it has returned or raised
Finished == pc \in {"orbits_done", "raised"}

\* the results hold what the RV panels asked for need: rows and the gamma
\* label of the primary's instrument, the mass of the primary, and RV rows of
\* the companion if only its panel is asked for
RvInputsUsable ==
    /\ rv_time_series =>
          /\ TypeRows(ObjectRows(data, 0), "rv") # <<>>
          /\ GammaOf(Instrument) \in DOMAIN param_idx
    /\ (rv_time_series \/ rv_time_series2) => M0Bound
    /\ (rv_time_series2 /\ ~rv_time_series) =>
          TypeRows(ObjectRows(data, 1), "rv") # <<>>

\* C11: a finished call given a Figure has returned that Figure and has
\* created no other, whatever rv_time_series and rv_time_series2 are; a call
\* given no Figure has created one and returned it.
C11_GivenFigureReturned ==
    (Finished /\ RvInputsUsable) =>
        IF fig = "given"
        THEN outcome = Return("given") /\ figures = 0
        ELSE outcome = Return(fig) /\ figures >= 1 /\ fig = NewFigure(figures)

\* C12: once the separation panel is drawn, its epochs and its values are
\* equally many, and the k-th value comes from the row of results.data (of
\* the plotted object) whose epoch is the k-th epoch, whatever the order of
\* the 'radec' and 'seppa' rows.
C12_AstrometryAtOwnEpoch ==
    pc \in {"orbits_scattered", "orbits_done"} =>
        /\ Len(sep_points.x) = Len(sep_points.y)
        /\ \A k \in 1..Len(sep_points.y) :
              \E j \in 1..Len(data) :
                  /\ data[j].object = object_to_plot
                  /\ data[j].quant1 = sep_points.y[k].quant1
                  /\ DecimalYear(data[j].epoch) = sep_points.x[k]

\* C13: every curve drawn in an RV panel has, as x-coordinates, the decimal
\* years of the epochs that were passed to kepler.calc_orbit to compute its
\* velocities.
C13_RvCurveAtComputedEpochs ==
    \A k \in 1..Len(rv_curves) :
        rv_curves[k].x = DecimalYears(rv_curves[k].vz_epochs)

(***************************************************************************)
(* The results object as a frame (checked under SpecFrame).                *)
(***************************************************************************)
\* C14: no step of plot_corner or of plot_orbits, in a call that returns or
\* in one that raises, changes results.post, results.labels,
\* results.param_idx or results.data.
C14_ResultsUnchanged == [][UNCHANGED <<post, labels, param_idx, data>>]_vars

\* plot_orbits has returned from an MCMC fit with an RV panel: the drawn
\* sample was converted to the standard basis, and so was the most likely one
C14_Witness ==
    /\ pc = "orbits_done"
    /\ sampler_name = "MCMC"
    /\ rv_time_series
    /\ Len(standard_post) = 1
    /\ standard_post[1].converted
    /\ post = PosteriorOf(MaxSamples, labels, {})

====
